---- MODULE Spec2Model ----
(***************************************************************************)
(* The OneKey client node (ClientNode): its Express routes, the business   *)
(* handlers behind them, and the signing / verification collaborators the  *)
(* handlers call (request builders, operator client, key store, verifier). *)
(*                                                                         *)
(* Spec   : one request at a time travels through the route its endpoint   *)
(*          registers; the clock may tick between stages.                  *)
(* SpecKS : the key store on its own: lookups and refreshes.               *)
(* SpecVerify   : verification against a key store refreshed under rotation*)
(* SpecCow      : refreshes against readers holding identities             *)
(* SpecPair     : two requests interleaved stage by stage                  *)
(* SpecChain    : the redirect chain of a read, vendor-operator-vendor     *)
(* SpecHandlers : the business handlers called on their own                *)
(* SpecLive     : Spec with the stages scheduled fairly                    *)
(***************************************************************************)
EXTENDS Integers, Sequences, FiniteSets, TLC

VARIABLES
  node,      \* the ClientNode fields set by the constructor
  now,       \* the clock, in abstract seconds
  req,       \* the request being handled (NoReq when idle)
  pos,       \* index in the route of the stage that runs next; 0 = no stage left
  pending,   \* the error handed to next(error) and not yet consumed, or None
  ctx,       \* the Express response of the request and what the handler did with it
  trace,     \* the stages that ran for the request, in order
  spans,     \* spans opened by startSpan and not yet closed by endSpan
  keyStore,  \* key store cache: host -> set of {start, end, key}
  remote,    \* the key set each host publishes right now
  fetches,   \* key store: number of identity fetches in flight per host
  lookups,   \* key store: state of each concurrent lookup
  fetchLog,  \* key store: fetches started per host
  verdict,   \* key store: the last verification made and its outcome
  held,      \* key store: the identity each reader was handed and still holds
  parked,    \* a second request, suspended between two stages of its route
  chain      \* the redirect chain of a read, as it travels in the URL

vars == <<node, now, req, pos, pending, ctx, trace, spans,
          keyStore, remote, fetches, lookups, fetchLog, verdict, held, parked, chain>>

reqVars == <<req, pos, pending, ctx, trace, spans>>
ksVars  == <<keyStore, remote, fetches, lookups, fetchLog, verdict, held>>

(***************************************************************************)
(* Bounds                                                                  *)
(***************************************************************************)
MaxTime == 3        \* the clock runs over 0..MaxTime
MaxLookups == 2     \* concurrent key store lookups
MaxFetches == 2     \* fetches a host may see started before the model stops
MaxReaders == 2     \* concurrent readers holding an identity of the key store

Times == 0..MaxTime

None == "none"

(***************************************************************************)
(* Configuration of the demo node                                          *)
(***************************************************************************)
\* currentPublicKey.startTimestampInSec / endTimestampInSec, abstract seconds
KeyStart == 1
KeyEnd == 2

hostName == "vendor"
operatorHost == "operator"
currentPrivateKey == "kV"

pafMarketClientNodePrivateConfig ==
  [ type |-> "vendor",
    currentPublicKey |-> [ start |-> KeyStart, end |-> KeyEnd, key |-> "kV" ],
    privateKey |-> currentPrivateKey ]

\* A window [start, end) covers t
Covers(w, t) == w.start <= t /\ t < w.end

(***************************************************************************)
(* Endpoints                                                               *)
(***************************************************************************)
jsonProxyEndpoints ==
  { "read", "write", "verify3PC", "newId", "delete",
    "verifyRead", "signPrefs", "createSeed" }

redirectProxyEndpoints == { "redirectRead", "redirectWrite", "redirectDelete" }

Endpoints == jsonProxyEndpoints \cup redirectProxyEndpoints

(***************************************************************************)
(* Strings, optional values, JSON text                                     *)
(* A string is a sequence of tokens; an optional value says whether it is  *)
(* there (undefined is not the empty string).                              *)
(***************************************************************************)
Undefined == [ present |-> FALSE, val |-> <<>> ]
Some(v) == [ present |-> TRUE, val |-> v ]

\* URL.toString() and new URL(string)
UrlString(host, path) == << "https:", host, path >>
IsUrlString(s) == Len(s) = 3 /\ s[1] = "https:"
Host(s) == IF IsUrlString(s) THEN s[2] ELSE None

\* JSON.stringify / JSON.parse of a flat object: braces around its tokens
JsonText(tokens) == << "{" >> \o tokens \o << "}" >>
IsJson(s) == Len(s) >= 2 /\ s[1] = "{" /\ s[Len(s)] = "}"
JsonParse(s) == IF IsJson(s) THEN SubSeq(s, 2, Len(s) - 1) ELSE << >>

\* index of the first ";" of a token sequence, 0 when there is none
RECURSIVE SepIndex(_, _)
SepIndex(s, i) ==
  IF i > Len(s) THEN 0 ELSE IF s[i] = ";" THEN i ELSE SepIndex(s, i + 1)

(***************************************************************************)
(* Signing definitions: canonical bytes per message family                 *)
(***************************************************************************)
\* request bound to its REST context (the caller's Origin)
RestContext(origin) == << "origin", origin >>
\* request bound to its redirect context (return destination, referer)
RedirectContext(returnUrl, referer) == << "returnUrl" >> \o returnUrl \o << "referer" >> \o referer

RequestSigningDefinition(m, context) ==
  << "request", m.sender, m.receiver, ToString(m.timestamp), "[" >> \o m.body \o << "]" >> \o context

ResponseSigningDefinition(m) ==
  << "response", m.sender, m.receiver, ToString(m.timestamp), "[" >> \o m.body \o << "]" >>

IdsAndPrefsSigningDefinition(m) ==
  << "prefs", m.sender, ToString(m.timestamp), "[" >> \o m.body \o << "]" >>

SeedSigningDefinition(m) ==
  << "seed", m.sender, ToString(m.timestamp), "[" >> \o m.transaction_ids \o << "]", m.data >>

(***************************************************************************)
(* Digital signature engine: a signature names the key pair that made it   *)
(* and the bytes it was made over; a key pair has one name for both halves *)
(***************************************************************************)
Sign(privateKey, bytes) == [ key |-> privateKey, bytes |-> bytes ]
VerifySignature(publicKey, bytes, signature) ==
  signature.key = publicKey /\ signature.bytes = bytes

NoSignature == [ key |-> None, bytes |-> << >> ]
NoMessage ==
  [ sender |-> None, receiver |-> None, timestamp |-> 0, body |-> << >>,
    signature |-> NoSignature ]

(***************************************************************************)
(* Key store and verifier                                                  *)
(***************************************************************************)
\* acceptance tolerance of the verifier around the current time
Tolerance == 1

\* the hosts the key store may be asked about
KnownHosts == { "operator", "cmp" }

\* the key sets a host can publish: windows are [start, end) and never overlap
KeySetA == { [ start |-> 0, end |-> 2, key |-> "kO1" ] }
KeySetB == { [ start |-> 0, end |-> 2, key |-> "kO1" ],
             [ start |-> 2, end |-> 3, key |-> "kO2" ] }
KeySets == { KeySetA, KeySetB }

\* a key store that answers with a key of the host whatever the timestamp
getPublicKey_AnyWindow(ks, host, atTime) ==
  IF host \notin DOMAIN ks \/ ks[host] = {}
    THEN [ found |-> FALSE, key |-> None ]
    ELSE [ found |-> TRUE,
           key |-> (CHOOSE w \in ks[host] : \A v \in ks[host] : v.start <= w.start).key ]

\* getPublicKey(host, atTime): the key whose window covers atTime;
\* KeyNotFound when the host is unknown or no window covers the timestamp
getPublicKey(ks, host, atTime) ==
  IF host \notin DOMAIN ks
    THEN [ found |-> FALSE, key |-> None ]
    ELSE LET covering == { w \in ks[host] : Covers(w, atTime) }
         IN  IF covering = {}
               THEN [ found |-> FALSE, key |-> None ]
               ELSE [ found |-> TRUE, key |-> (CHOOSE w \in covering : TRUE).key ]

\* verify(signedMessage, definition): "true", "false", or "throw" (a structural
\* error or KeyNotFound); bytes are the definition's canonical bytes of the message
verify(ks, m, bytes, t) ==
  LET k == getPublicKey(ks, m.sender, m.timestamp)
  IN  IF ~k.found THEN "throw"
      ELSE IF m.timestamp > t + Tolerance \/ t > m.timestamp + Tolerance THEN "false"
      ELSE IF VerifySignature(k.key, bytes, m.signature) THEN "true"
      ELSE "false"

(***************************************************************************)
(* Request builders and operator client, as the constructor builds them    *)
(***************************************************************************)
\* RestRequestBuilder.buildRestRequest(context, payload)
buildRestRequest(b, origin, payload, t) ==
  LET unsigned == [ sender |-> b.host, receiver |-> b.operatorHost,
                    timestamp |-> t, body |-> payload ]
  IN  [ sender |-> unsigned.sender, receiver |-> unsigned.receiver,
        timestamp |-> unsigned.timestamp, body |-> unsigned.body,
        signature |-> Sign(b.privateKey,
                           RequestSigningDefinition(unsigned, RestContext(origin))) ]

\* RestAndRedirectRequestBuilder.buildRedirectRequest(context, payload)
buildRedirectRequest(b, returnUrl, referer, payload, t) ==
  LET unsigned == [ sender |-> b.host, receiver |-> b.operatorHost,
                    timestamp |-> t, body |-> payload ]
  IN  [ sender |-> unsigned.sender, receiver |-> unsigned.receiver,
        timestamp |-> unsigned.timestamp, body |-> unsigned.body,
        signature |-> Sign(b.privateKey,
                           RequestSigningDefinition(unsigned,
                                                    RedirectContext(returnUrl, referer))) ]

\* getRestUrl(request?) / getRedirectUrl(request): the operator's fixed path for
\* the operation, carrying the request (and the return URL of a redirect)
OperatorUrl(b, path, message, returnUrl) ==
  [ host |-> b.operatorHost, path |-> path, message |-> message, returnUrl |-> returnUrl ]

\* url.toString()
UrlToString(u) ==
  [ text |-> UrlString(u.host, u.path), message |-> u.message, returnUrl |-> u.returnUrl ]

\* OperatorClient.buildPreferences(identifiers, data)
buildPreferences(cl, identifiers, data, t) ==
  LET unsigned == [ sender |-> cl.host, timestamp |-> t, body |-> << identifiers, data >> ]
  IN  [ sender |-> unsigned.sender, timestamp |-> unsigned.timestamp, body |-> unsigned.body,
        signature |-> Sign(cl.privateKey, IdsAndPrefsSigningDefinition(unsigned)) ]

\* OperatorClient.buildSeed(transactionIds, data)
buildSeed(cl, transactionIds, data, t) ==
  LET unsigned == [ sender |-> cl.host, timestamp |-> t,
                    transaction_ids |-> transactionIds, data |-> data ]
  IN  [ sender |-> unsigned.sender, timestamp |-> unsigned.timestamp,
        transaction_ids |-> unsigned.transaction_ids, data |-> unsigned.data,
        signature |-> Sign(cl.privateKey, SeedSigningDefinition(unsigned)) ]

\* OperatorClient.verifyReadResponse(response)
verifyReadResponse(cl, ks, response, t) ==
  verify(ks, response, ResponseSigningDefinition(response), t)

\* ClientNode.constructor: the fields it sets from the configuration
ClientNode(config) ==
  [ client |-> [ operatorHost |-> config.operatorHost, host |-> config.host,
                 privateKey |-> config.currentPrivateKey ],
    postIdsPrefsRequestBuilder |->
      [ operatorHost |-> config.operatorHost, host |-> config.host,
        privateKey |-> config.currentPrivateKey ],
    get3PCRequestBuilder |-> [ operatorHost |-> config.operatorHost ],
    getNewIdRequestBuilder |->
      [ operatorHost |-> config.operatorHost, host |-> config.host,
        privateKey |-> config.currentPrivateKey ],
    deleteIdsPrefsRequestBuilder |->
      [ operatorHost |-> config.operatorHost, host |-> config.host,
        privateKey |-> config.currentPrivateKey ],
    websiteIdentityValidator |-> [ host |-> config.host ],
    identity |-> config.identity ]

ClientNodeConfig ==
  [ host |-> hostName, operatorHost |-> operatorHost,
    currentPrivateKey |-> pafMarketClientNodePrivateConfig.privateKey,
    identity |-> pafMarketClientNodePrivateConfig.currentPublicKey ]

(***************************************************************************)
(* The Express response, as a handler uses it                              *)
(***************************************************************************)
NoBody == [ kind |-> "none" ]
TextBody(text) == [ kind |-> "text", text |-> text ]
UrlBody(url) == [ kind |-> "url", url |-> url ]
JsonBody(json) == [ kind |-> "json", json |-> json ]

NewCtx ==
  [ statusCode |-> 200, headersSent |-> FALSE, body |-> NoBody,
    attempts |-> 0,        \* calls of send / json / sendStatus
    nextCalls |-> << >>,   \* the handler's calls of next: "ok" or "error"
    escaped |-> FALSE,     \* an exception left the handler
    verifyCalls |-> 0,     \* calls of client.verifyReadResponse
    verification |-> None ] \* what the last of them returned: "true", "false", "throw"

\* ClientNodeErrorType / OperatorErrorType
UNKNOWN_ERROR == "UNKNOWN_ERROR"
VERIFICATION_FAILED == "VERIFICATION_FAILED"

ClientNodeError(type) == [ type |-> type, details |-> "" ]

\* res.status(code)
Status(c, code) == [ c EXCEPT !.statusCode = code ]

\* res.send(body) / res.json(body): writes the response once; a second write
\* throws (headers already sent). [ok, c]
Send(c, body) ==
  IF c.headersSent
    THEN [ ok |-> FALSE, c |-> [ c EXCEPT !.attempts = @ + 1 ] ]
    ELSE [ ok |-> TRUE,
           c  |-> [ c EXCEPT !.headersSent = TRUE, !.body = body, !.attempts = @ + 1 ] ]

\* next() / next(error)
CallNext(c, how) == [ c EXCEPT !.nextCalls = Append(@, how) ]

\* an exception propagates out of the handler
Escape(c) == [ c EXCEPT !.escaped = TRUE ]

\* res.status(400); res.json(error); next(error) outside any try (a catch block,
\* or the operator-error branch): a throw of res.json leaves the handler
Respond400(c, error) ==
  LET s == Send(Status(c, 400), JsonBody(error))
  IN  IF s.ok THEN CallNext(s.c, "error") ELSE Escape(s.c)

\* a catch block that reports the verification error type
CatchUnknown_AsVerificationFailed(c) == Respond400(c, ClientNodeError(VERIFICATION_FAILED))

\* the catch block every handler ends with
CatchUnknown(c) == Respond400(c, ClientNodeError(UNKNOWN_ERROR))

\* res.send(body); next() inside the try: a throw of res.send lands in the catch
SendAndNext(c, body) ==
  LET s == Send(c, body)
  IN  IF s.ok THEN CallNext(s.c, "ok") ELSE CatchUnknown(s.c)

\* res.sendStatus(code): status, text body, send; throws when already sent
SendStatus(c, code) ==
  LET s == Send(Status(c, code), TextBody(<< "Bad Request" >>))
  IN  IF s.ok THEN s.c ELSE Escape(s.c)

(***************************************************************************)
(* Query string helpers                                                    *)
(***************************************************************************)
\* the helper without its automatic 400
getMandatoryQueryStringParam_NoStatus(param, c) ==
  IF ~param.present
    THEN [ val |-> Undefined, c |-> c ]
    ELSE [ val |-> param, c |-> c ]

\* getMandatoryQueryStringParam(req, res, paramName): [val, c]
getMandatoryQueryStringParam(param, c) ==
  IF ~param.present
    THEN [ val |-> Undefined, c |-> SendStatus(c, 400) ]
    ELSE [ val |-> param, c |-> c ]

NoUrl == [ present |-> FALSE, host |-> None, path |-> None ]

\* getReturnUrl(req, res): [threw, url, c]; new URL throws on a string that is no URL
getReturnUrl(r, c) ==
  LET g == getMandatoryQueryStringParam(r.returnUrl, c)
  IN  IF g.c.escaped THEN [ threw |-> TRUE, url |-> NoUrl, c |-> g.c ]
      ELSE IF g.val.present /\ g.val.val # << >>
        THEN IF IsUrlString(g.val.val)
               THEN [ threw |-> FALSE,
                      url |-> [ present |-> TRUE, host |-> g.val.val[2], path |-> g.val.val[3] ],
                      c |-> g.c ]
               ELSE [ threw |-> TRUE, url |-> NoUrl, c |-> Escape(g.c) ]
        ELSE [ threw |-> FALSE, url |-> NoUrl, c |-> g.c ]

\* getMessageObject(req, res): [threw, input, c]; JSON.parse throws on malformed text
getMessageObject(r, c) ==
  LET g == getMandatoryQueryStringParam(r.message, c)
  IN  IF g.c.escaped THEN [ threw |-> TRUE, input |-> Undefined, c |-> g.c ]
      ELSE IF g.val.present /\ g.val.val # << >>
        THEN IF IsJson(g.val.val)
               THEN [ threw |-> FALSE, input |-> Some(JsonParse(g.val.val)), c |-> g.c ]
               ELSE [ threw |-> TRUE, input |-> Undefined, c |-> Escape(g.c) ]
        ELSE [ threw |-> FALSE, input |-> Undefined, c |-> g.c ]

\* getPayload(req): the parsed JSON body; [ok, val]
getPayload(r) ==
  [ ok |-> IsJson(r.body.text), val |-> JsonParse(r.body.text) ]

\* fromDataToObject(req.body): the parsed envelope; [ok, response, error]
fromDataToObject(body) ==
  [ ok |-> IsJson(body.text), response |-> body.response, error |-> body.error ]

(***************************************************************************)
(* Business handlers of ClientNode: each maps the response context it is   *)
(* given to the context it leaves (n: node, ks: key store, r: request,     *)
(* t: current time, c: context)                                            *)
(***************************************************************************)
\* OperatorClient.getReadRestUrl(req)
getReadRestUrl(cl, r, t) ==
  OperatorUrl(cl, "read", buildRestRequest(cl, r.origin, << >>, t), Undefined)

\* OperatorClient.getReadRedirectUrl(req, returnUrl) / getDeleteRedirectUrl
getRedirectUrl(cl, path, r, returnUrl, t) ==
  LET ret == UrlString(returnUrl.host, returnUrl.path)
  IN  OperatorUrl(cl, path, buildRedirectRequest(cl, ret, r.referer, << >>, t), Some(ret))

restGetIdsAndPrefs(n, ks, r, t, c) ==
  SendAndNext(c, UrlBody(UrlToString(getReadRestUrl(n.client, r, t))))

\* the write handler signing the payload without the caller's Origin
restWriteIdsAndPrefs_NoOrigin(n, ks, r, t, c) ==
  LET unsignedRequest == getPayload(r)
      b == n.postIdsPrefsRequestBuilder
      signedPayload == buildRestRequest(b, None, unsignedRequest.val, t)
      url == OperatorUrl(b, "write", NoMessage, Undefined)
  IN  IF ~unsignedRequest.ok
        THEN CatchUnknown(c)
        ELSE SendAndNext(c, JsonBody([ payload |-> signedPayload, url |-> UrlToString(url) ]))

restWriteIdsAndPrefs(n, ks, r, t, c) ==
  LET unsignedRequest == getPayload(r)
      b == n.postIdsPrefsRequestBuilder
      signedPayload == buildRestRequest(b, r.origin, unsignedRequest.val, t)
      url == OperatorUrl(b, "write", NoMessage, Undefined)
  IN  IF ~unsignedRequest.ok
        THEN CatchUnknown(c)
        ELSE SendAndNext(c, JsonBody([ payload |-> signedPayload, url |-> UrlToString(url) ]))

verify3PC(n, ks, r, t, c) ==
  LET url == OperatorUrl(n.get3PCRequestBuilder, "verify3PC", NoMessage, Undefined)
  IN  SendAndNext(c, UrlBody(UrlToString(url)))

getNewId(n, ks, r, t, c) ==
  LET b == n.getNewIdRequestBuilder
      getNewIdRequestJson == buildRestRequest(b, r.origin, << >>, t)
      url == OperatorUrl(b, "newId", getNewIdRequestJson, Undefined)
  IN  SendAndNext(c, UrlBody(UrlToString(url)))

\* the delete handler signing without the caller's Origin
restDeleteIdsAndPrefs_NoOrigin(n, ks, r, t, c) ==
  LET b == n.deleteIdsPrefsRequestBuilder
      request == buildRestRequest(b, None, << >>, t)
      url == OperatorUrl(b, "delete", request, Undefined)
  IN  SendAndNext(c, UrlBody(UrlToString(url)))

restDeleteIdsAndPrefs(n, ks, r, t, c) ==
  LET b == n.deleteIdsPrefsRequestBuilder
      request == buildRestRequest(b, r.origin, << >>, t)
      url == OperatorUrl(b, "delete", request, Undefined)
  IN  SendAndNext(c, UrlBody(UrlToString(url)))

redirectReadIdsAndPrefs(n, ks, r, t, c) ==
  LET g == getReturnUrl(r, c)
  IN  IF g.threw THEN g.c
      ELSE IF ~g.url.present THEN CatchUnknown(g.c)
      ELSE SendAndNext(g.c, UrlBody(UrlToString(
             getRedirectUrl(n.client, "redirectRead", r, g.url, t))))

redirectWriteIdsAndPrefs(n, ks, r, t, c) ==
  LET g == getReturnUrl(r, c)
      m == getMessageObject(r, g.c)
      b == n.postIdsPrefsRequestBuilder
      ret == UrlString(g.url.host, g.url.path)
      postIdsPrefsRequestJson == buildRedirectRequest(b, ret, r.referer, m.input.val, t)
      url == OperatorUrl(b, "redirectWrite", postIdsPrefsRequestJson, Some(ret))
  IN  IF g.threw THEN g.c
      ELSE IF m.threw THEN m.c
      ELSE IF ~m.input.present THEN m.c
      ELSE IF ~g.url.present THEN CatchUnknown(m.c)
      ELSE SendAndNext(m.c, UrlBody(UrlToString(url)))

redirectDeleteIdsAndPrefs(n, ks, r, t, c) ==
  LET g == getReturnUrl(r, c)
  IN  IF g.threw THEN g.c
      ELSE IF ~g.url.present THEN CatchUnknown(g.c)
      ELSE SendAndNext(g.c, UrlBody(UrlToString(
             getRedirectUrl(n.client, "redirectDelete", r, g.url, t))))

\* the verify handler answering with the operator's data whatever the verdict
verifyOperatorReadResponse_IgnoreVerdict(n, ks, r, t, c) ==
  LET message == fromDataToObject(r.body)
      verification == verifyReadResponse(n.client, ks, message.response.val, t)
      called == [ c EXCEPT !.verifyCalls = @ + 1, !.verification = verification ]
  IN  IF ~message.ok THEN Escape(c)
      ELSE IF ~message.response.present
        THEN IF ~message.error.present
               THEN Escape(c)
               ELSE Respond400(c, [ type |-> UNKNOWN_ERROR, details |-> message.error.message ])
      ELSE IF verification = "throw" THEN CatchUnknown(called)
      ELSE SendAndNext(called, JsonBody(message.response.val))

verifyOperatorReadResponse(n, ks, r, t, c) ==
  LET message == fromDataToObject(r.body)
      verification == verifyReadResponse(n.client, ks, message.response.val, t)
      called == [ c EXCEPT !.verifyCalls = @ + 1, !.verification = verification ]
      failed == Send(Status(called, 400), JsonBody(ClientNodeError(VERIFICATION_FAILED)))
  IN  IF ~message.ok THEN Escape(c)
      ELSE IF ~message.response.present
        THEN IF ~message.error.present
               THEN Escape(c)
               ELSE Respond400(c, [ type |-> UNKNOWN_ERROR, details |-> message.error.message ])
      ELSE IF verification = "throw" THEN CatchUnknown(called)
      ELSE IF verification = "false"
        THEN IF failed.ok THEN CallNext(failed.c, "error") ELSE CatchUnknown(failed.c)
      ELSE SendAndNext(called, JsonBody(message.response.val))

signPreferences(n, ks, r, t, c) ==
  LET p == getPayload(r)
  IN  IF ~p.ok \/ Len(p.val) < 2
        THEN CatchUnknown(c)
        ELSE SendAndNext(c, JsonBody(buildPreferences(n.client, p.val[1], p.val[2], t)))

\* the seed handler handing the transaction ids over in reverse order
createSeed_Reversed(n, ks, r, t, c) ==
  LET text == r.body.text
      request == JsonParse(text)
      sep == SepIndex(request, 1)
      ids == SubSeq(request, 1, sep - 1)
      transaction_ids == [ i \in 1..Len(ids) |-> ids[Len(ids) + 1 - i] ]
      data == request[sep + 1]
  IN  IF ~IsJson(text) \/ sep = 0 \/ sep = Len(request)
        THEN CatchUnknown(c)
        ELSE SendAndNext(c, JsonBody(buildSeed(n.client, transaction_ids, data, t)))

createSeed(n, ks, r, t, c) ==
  LET text == r.body.text
      request == JsonParse(text)
      sep == SepIndex(request, 1)
      transaction_ids == SubSeq(request, 1, sep - 1)
      data == request[sep + 1]
  IN  IF ~IsJson(text) \/ sep = 0 \/ sep = Len(request)
        THEN CatchUnknown(c)
        ELSE SendAndNext(c, JsonBody(buildSeed(n.client, transaction_ids, data, t)))

(***************************************************************************)
(* Identity validator (trust-boundary gate)                                *)
(***************************************************************************)
\* the callers this node accepts
AllowedOrigins == { "good" }

\* checkOrigin passes when the declared Origin is present and allowed
checkOrigin(r) == r.origin \in AllowedOrigins

\* checkReferer / checkReturnUrl pass when the referer's host matches the host
\* embedded in returnUrl
checkReferer(r) ==
  /\ Host(r.referer) # None
  /\ r.returnUrl.present
  /\ Host(r.referer) = Host(r.returnUrl.val)

checkReturnUrl(r) ==
  /\ r.returnUrl.present
  /\ Host(r.returnUrl.val) # None
  /\ Host(r.returnUrl.val) = Host(r.referer)

\* the rejection a gate answers with
OriginMismatch == [ status |-> 403, error |-> [ type |-> "ORIGIN_MISMATCH", details |-> "origin" ] ]
RefererMismatch == [ status |-> 400, error |-> [ type |-> "RETURN_URL_MISMATCH", details |-> "referer" ] ]
ReturnUrlMismatch == [ status |-> 400, error |-> [ type |-> "RETURN_URL_MISMATCH", details |-> "returnUrl" ] ]

Reject(c, rejection) == Send(Status(c, rejection.status), JsonBody(rejection.error)).c

(***************************************************************************)
(* Routes registered by the constructor                                    *)
(***************************************************************************)
\* the JSON routes with the origin gate registered after the business handler
Route_HandlerBeforeOriginGate(ep) ==
  IF ep \in jsonProxyEndpoints
    THEN << "cors", "startSpan", "handler", "checkOrigin", "handleErrors", "endSpan" >>
    ELSE << "cors", "checkReferer", "checkReturnUrl", "startSpan", "handler",
            "handleErrors", "endSpan" >>

\* the redirect routes registered without the referer and return URL gates
Route_NoRedirectGates(ep) ==
  IF ep \in jsonProxyEndpoints
    THEN << "cors", "checkOrigin", "startSpan", "handler", "handleErrors", "endSpan" >>
    ELSE << "cors", "startSpan", "handler", "handleErrors", "endSpan" >>

Route(ep) ==
  IF ep \in jsonProxyEndpoints
    THEN << "cors", "checkOrigin", "startSpan", "handler", "handleErrors", "endSpan" >>
    ELSE << "cors", "checkReferer", "checkReturnUrl", "startSpan", "handler",
            "handleErrors", "endSpan" >>

\* the business handler each route registers
Handler(ep, n, ks, r, t, c) ==
  CASE ep = "read"           -> restGetIdsAndPrefs(n, ks, r, t, c)
    [] ep = "write"          -> restWriteIdsAndPrefs(n, ks, r, t, c)
    [] ep = "verify3PC"      -> verify3PC(n, ks, r, t, c)
    [] ep = "newId"          -> getNewId(n, ks, r, t, c)
    [] ep = "delete"         -> restDeleteIdsAndPrefs(n, ks, r, t, c)
    [] ep = "redirectRead"   -> redirectReadIdsAndPrefs(n, ks, r, t, c)
    [] ep = "redirectWrite"  -> redirectWriteIdsAndPrefs(n, ks, r, t, c)
    [] ep = "redirectDelete" -> redirectDeleteIdsAndPrefs(n, ks, r, t, c)
    [] ep = "verifyRead"     -> verifyOperatorReadResponse(n, ks, r, t, c)
    [] ep = "signPrefs"      -> signPreferences(n, ks, r, t, c)
    [] ep = "createSeed"     -> createSeed(n, ks, r, t, c)

\* a handler that keeps the caller's Origin in the operator client
NodeAfter_KeepsOrigin(ep, n, r) ==
  IF ep \in jsonProxyEndpoints THEN [ n EXCEPT !.client.host = r.origin ] ELSE n

\* the fields of the node after a business handler ran: the handlers read
\* this.client, the builders and the logger and assign none of them
NodeAfter(ep, n, r) == n

\* error-handling middleware runs only for next(error); the others only for next()
IsErrorStage(name) == name = "handleErrors"

\* Express dispatch: the next stage after index i that takes this kind of call
RECURSIVE NextStage(_, _, _)
NextStage(route, i, withError) ==
  IF i + 1 > Len(route) THEN 0
  ELSE IF IsErrorStage(route[i + 1]) = withError THEN i + 1
  ELSE NextStage(route, i + 1, withError)

(***************************************************************************)
(* Requests                                                                *)
(***************************************************************************)
Origins == { None, "good", "evil" }
Referers == { << >>, UrlString("good", "/page"), UrlString("evil", "/page") }
ReturnUrls ==
  { Undefined, Some(<< >>), Some(UrlString("good", "/back")),
    Some(UrlString("evil", "/back")), Some(<< "junk" >>) }
MessageParams == { Undefined, Some(JsonText(<< "id1", "optIn" >>)), Some(<< "{", "id1" >>) }

NoError == [ present |-> FALSE, type |-> None, message |-> "" ]

\* the types the operator tags its errors with: the catch-all and a specific one
OperatorErrorTypes == { UNKNOWN_ERROR, "INVALID_ORIGIN" }
NoResponse == [ present |-> FALSE, val |-> NoMessage ]
TextOnly(text) == [ text |-> text, response |-> NoResponse, error |-> NoError ]

\* a response the operator (or somebody else) signed: sender s, timestamp t,
\* key k; tampered: the body was changed after signing
OperatorResponse(s, t, k, tampered) ==
  LET signed == [ sender |-> s, receiver |-> hostName, timestamp |-> t,
                  body |-> << "id1", "optIn" >> ]
  IN  [ sender |-> s, receiver |-> hostName, timestamp |-> t,
        body |-> IF tampered THEN << "id2", "optIn" >> ELSE signed.body,
        signature |-> Sign(k, ResponseSigningDefinition(signed)) ]

OperatorResponses ==
  { OperatorResponse(s, t, k, tampered) :
      s \in { "operator", "unknown" }, t \in Times,
      k \in { "kO1", "kO2", "kX" }, tampered \in BOOLEAN }

Bodies(ep) ==
  CASE ep = "write" -> { TextOnly(JsonText(<< "id1", "optIn" >>)), TextOnly(<< "{", "id1" >>) }
    [] ep = "signPrefs" ->
         { TextOnly(JsonText(<< "id1", "optIn" >>)), TextOnly(JsonText(<< "id1" >>)),
           TextOnly(<< "{" >>) }
    [] ep = "createSeed" ->
         { TextOnly(JsonText(<< "t1", "t2", ";", "x" >>)), TextOnly(JsonText(<< "x" >>)),
           TextOnly(<< "{", "t1" >>) }
    [] ep = "verifyRead" ->
         { [ text |-> JsonText(<< >>), response |-> [ present |-> TRUE, val |-> m ],
             error |-> NoError ] : m \in OperatorResponses }
         \cup { [ text |-> JsonText(<< >>), response |-> NoResponse,
                  error |-> [ present |-> TRUE, type |-> ty, message |-> "operator says no" ] ] :
                  ty \in OperatorErrorTypes }
         \cup { TextOnly(JsonText(<< >>)), TextOnly(<< "{" >>) }
    [] OTHER -> { TextOnly(<< >>) }

\* the requests a client sends: a JSON endpoint reads the Origin header and the
\* body, a redirect endpoint the referer and the query string (the message
\* parameter is read by redirect write alone)
Requests ==
  UNION { { [ ep |-> ep, origin |-> o, referer |-> << >>, returnUrl |-> Undefined,
              message |-> Undefined, body |-> b ] :
              o \in Origins, b \in Bodies(ep) } : ep \in jsonProxyEndpoints }
  \cup
  UNION { { [ ep |-> ep, origin |-> None, referer |-> ref, returnUrl |-> ret,
              message |-> msg, body |-> TextOnly(<< >>) ] :
              ref \in Referers, ret \in ReturnUrls,
              msg \in IF ep = "redirectWrite" THEN MessageParams ELSE { Undefined } } :
          ep \in redirectProxyEndpoints }

NoReq ==
  [ ep |-> None, origin |-> None, referer |-> << >>, returnUrl |-> Undefined,
    message |-> Undefined, body |-> TextOnly(<< >>) ]

(***************************************************************************)
(* The request pipeline                                                    *)
(***************************************************************************)
Stage == IF pos = 0 THEN None ELSE Route(req.ep)[pos]

\* a gate or span stage passes control on with next()
Pass ==
  /\ pos' = NextStage(Route(req.ep), pos, FALSE)
  /\ pending' = None

\* a request arrives: Express starts the route of its endpoint
Arrive(r) ==
  /\ req = NoReq
  /\ pos = 0
  /\ req' = r
  /\ pos' = 1
  /\ pending' = None
  /\ ctx' = NewCtx
  /\ trace' = << >>
  /\ spans' = 0
  /\ UNCHANGED << node, parked, chain, now, ksVars >>

Cors ==
  /\ Stage = "cors"
  /\ trace' = Append(trace, "cors")
  /\ Pass
  /\ UNCHANGED << node, parked, chain, now, req, ctx, spans, ksVars >>

\* a gate that rejects answers itself and ends the route
Gate(name, passes, rejection) ==
  /\ Stage = name
  /\ trace' = Append(trace, name)
  /\ IF passes
       THEN Pass /\ ctx' = ctx
       ELSE /\ ctx' = Reject(ctx, rejection)
            /\ pos' = 0
            /\ pending' = None
  /\ UNCHANGED << node, parked, chain, now, req, spans, ksVars >>

CheckOrigin == Gate("checkOrigin", checkOrigin(req), OriginMismatch)
CheckReferer == Gate("checkReferer", checkReferer(req), RefererMismatch)
CheckReturnUrl == Gate("checkReturnUrl", checkReturnUrl(req), ReturnUrlMismatch)

StartSpan ==
  /\ Stage = "startSpan"
  /\ trace' = Append(trace, "startSpan")
  /\ spans' = spans + 1
  /\ Pass
  /\ UNCHANGED << node, parked, chain, now, req, ctx, ksVars >>

\* the business handler runs to its end; Express then follows its call of next,
\* or calls next(error) itself when an exception left the handler
RunHandler ==
  /\ Stage = "handler"
  /\ trace' = Append(trace, "handler")
  /\ ctx' = Handler(req.ep, node, keyStore, req, now, ctx)
  /\ node' = NodeAfter(req.ep, node, req)
  /\ IF ctx'.escaped \/ ctx'.nextCalls = << "error" >>
       THEN /\ pos' = NextStage(Route(req.ep), pos, TRUE)
            /\ pending' = "error"
       ELSE IF ctx'.nextCalls = << "ok" >>
         THEN Pass
         ELSE /\ pos' = 0
              /\ pending' = None
  /\ UNCHANGED << parked, chain, now, req, spans, ksVars >>

\* Node.handleErrors: logs the error and passes control on
HandleErrors ==
  /\ Stage = "handleErrors"
  /\ trace' = Append(trace, "handleErrors")
  /\ Pass
  /\ UNCHANGED << node, parked, chain, now, req, ctx, spans, ksVars >>

EndSpan ==
  /\ Stage = "endSpan"
  /\ trace' = Append(trace, "endSpan")
  /\ spans' = spans - 1
  /\ Pass
  /\ UNCHANGED << node, parked, chain, now, req, ctx, ksVars >>

\* the route has ended (or stalled) and the connection is closed
Finish ==
  /\ req # NoReq
  /\ pos = 0
  /\ req' = NoReq
  /\ pending' = None
  /\ ctx' = NewCtx
  /\ trace' = << >>
  /\ spans' = 0
  /\ UNCHANGED << node, parked, chain, now, pos, ksVars >>

Tick ==
  /\ now < MaxTime
  /\ now' = now + 1
  /\ UNCHANGED << node, parked, chain, reqVars, ksVars >>

\* no request is suspended
NoSlot ==
  [ req |-> NoReq, pos |-> 0, pending |-> None, ctx |-> NewCtx, trace |-> << >>, spans |-> 0 ]

\* a redirect URL that carries nothing
NoRedirect == [ text |-> << >>, message |-> NoMessage, returnUrl |-> Undefined ]

\* no redirect chain has started
NoChain ==
  [ state |-> "NONE", path |-> << >>, url |-> NoRedirect, referer |-> << >>,
    response |-> NoMessage, checks |-> << >> ]

NoLookup == [ st |-> "idle", host |-> None, ticket |-> 0, key |-> None ]
\* a reader that holds no identity; handed is the key set as it was handed over
NoIdentity == [ held |-> FALSE, host |-> None, keys |-> {}, handed |-> {}, installed |-> FALSE ]
NoVerdict ==
  [ made |-> FALSE, message |-> NoMessage, result |-> None, windows |-> {}, at |-> 0 ]

Init ==
  /\ node = ClientNode(ClientNodeConfig)
  /\ now = 0
  /\ req = NoReq
  /\ pos = 0
  /\ pending = None
  /\ ctx = NewCtx
  /\ trace = << >>
  /\ spans = 0
  /\ keyStore = [ h \in { "operator" } |-> KeySetB ]
  /\ remote = [ h \in KnownHosts |-> KeySetB ]
  /\ fetches = [ h \in KnownHosts |-> 0 ]
  /\ lookups = [ i \in 1..MaxLookups |-> NoLookup ]
  /\ fetchLog = [ h \in KnownHosts |-> 0 ]
  /\ verdict = NoVerdict
  /\ held = [ i \in 1..MaxReaders |-> NoIdentity ]
  /\ parked = NoSlot
  /\ chain = NoChain

Next ==
  \/ \E r \in Requests : Arrive(r)
  \/ Cors
  \/ CheckOrigin
  \/ CheckReferer
  \/ CheckReturnUrl
  \/ StartSpan
  \/ RunHandler
  \/ HandleErrors
  \/ EndSpan
  \/ Finish
  \/ Tick

Spec == Init /\ [][Next]_vars

(***************************************************************************)
(* Properties of the request pipeline (checked under Spec)                 *)
(***************************************************************************)
Range(s) == { s[i] : i \in 1..Len(s) }

\* position of a stage name in an order of stages
IndexIn(order, name) == CHOOSE k \in 1..Len(order) : order[k] = name

\* the stages of tr are distinct stages of order, in the order's order
InOrder(tr, order) ==
  /\ Range(tr) \subseteq Range(order)
  /\ \A i, j \in 1..Len(tr) : i < j => IndexIn(order, tr[i]) < IndexIn(order, tr[j])

IsErrorBody(b) == b.kind = "json" /\ DOMAIN b.json = { "type", "details" }
ErrorType(b) == IF IsErrorBody(b) THEN b.json.type ELSE None

\* the response is a success response / a failure response
Succeeded(c) == c.headersSent /\ c.statusCode = 200
Failed(c) == c.headersSent /\ c.statusCode # 200

\* tr begins with the stages of prefix
StartsWith(tr, prefix) ==
  Len(tr) >= Len(prefix) /\ SubSeq(tr, 1, Len(prefix)) = prefix

\* the route of the request has ended
Ended == req # NoReq /\ pos = 0

JsonStageOrder ==
  << "cors", "checkOrigin", "startSpan", "handler", "handleErrors", "endSpan" >>

\* C1: on every JSON endpoint the stages run in the order cors, checkOrigin,
\* startSpan, business handler, handleErrors, endSpan, and the business handler
\* runs only after cors, checkOrigin and startSpan, for a request whose Origin
\* is in the allowed set
C1_OriginGateBeforeHandler ==
  req.ep \in jsonProxyEndpoints =>
    /\ InOrder(trace, JsonStageOrder)
    /\ "handler" \in Range(trace) =>
         /\ StartsWith(trace, << "cors", "checkOrigin", "startSpan", "handler" >>)
         /\ req.origin \in AllowedOrigins
    /\ req.origin \notin AllowedOrigins => ctx.nextCalls = << >> /\ ctx.verifyCalls = 0

\* a JSON request with a foreign or absent Origin was rejected by checkOrigin
C1_Witness ==
  /\ req.ep \in jsonProxyEndpoints
  /\ req.origin \notin AllowedOrigins
  /\ Ended
  /\ trace = << "cors", "checkOrigin" >>
  /\ Failed(ctx)

\* C2: on every redirect endpoint checkReferer and checkReturnUrl run before
\* the business handler, and an operator redirect URL is answered only to a
\* request whose referer host equals the host of its returnUrl
C2_RefererGateBeforeRedirect ==
  req.ep \in redirectProxyEndpoints =>
    /\ "handler" \in Range(trace) =>
         StartsWith(trace,
           << "cors", "checkReferer", "checkReturnUrl", "startSpan", "handler" >>)
    /\ ctx.body.kind = "url" =>
         /\ req.returnUrl.present
         /\ Host(req.referer) # None
         /\ Host(req.referer) = Host(req.returnUrl.val)

\* a redirect request whose referer host differs from its returnUrl host was
\* rejected without a redirect URL
C2_Witness ==
  /\ req.ep \in redirectProxyEndpoints
  /\ req.returnUrl.present
  /\ Host(req.returnUrl.val) = "good"
  /\ Host(req.referer) = "evil"
  /\ Ended
  /\ Failed(ctx)
  /\ "handler" \notin Range(trace)

\* C3: verifyOperatorReadResponse answers with a success response only when
\* verifyReadResponse returned true, and then with message.response unchanged;
\* when it returned false or threw, or the envelope has no response, no success
\* response is sent
C3_NoSilentPass ==
  req.ep = "verifyRead" =>
    /\ Succeeded(ctx) =>
         /\ req.body.response.present
         /\ ctx.verification = "true"
         /\ ctx.body = JsonBody(req.body.response.val)
    /\ ("handler" \in Range(trace) /\ ctx.verification # "true") => ~Succeeded(ctx)

\* a verified operator response was answered back unchanged
C3_Witness ==
  /\ req.ep = "verifyRead"
  /\ Succeeded(ctx)
  /\ ctx.verification = "true"
  /\ ctx.body = JsonBody(req.body.response.val)

\* C4: when verifyReadResponse returns false the answer is 400 with type
\* VERIFICATION_FAILED, and no other path of any handler answers with that type
C4_VerificationFailedDistinct ==
  /\ (req.ep = "verifyRead" /\ ctx.verification = "false") =>
       /\ ctx.headersSent
       /\ ctx.statusCode = 400
       /\ ctx.body = JsonBody(ClientNodeError(VERIFICATION_FAILED))
  /\ ErrorType(ctx.body) = VERIFICATION_FAILED =>
       req.ep = "verifyRead" /\ ctx.verification = "false"

\* a response that does not verify was answered with VERIFICATION_FAILED
C4_Witness ==
  /\ req.ep = "verifyRead"
  /\ ctx.verification = "false"
  /\ ctx.statusCode = 400
  /\ ErrorType(ctx.body) = VERIFICATION_FAILED

\* C5: every failure response a business handler (or the query string helper
\* it calls) sends has status 400 and a JSON body with exactly the two fields
\* type and details
C5_FailuresAreTypeDetails ==
  ("handler" \in Range(trace) /\ Failed(ctx)) =>
    ctx.statusCode = 400 /\ IsErrorBody(ctx.body)

\* a request lacks a query parameter its redirect endpoint requires
LacksParameter(r) ==
  \/ ~r.returnUrl.present
  \/ r.ep = "redirectWrite" /\ ~r.message.present

\* C6: a redirect request that lacks returnUrl (or, for redirect write, message)
\* ends with a 400 response, and no operator redirect URL is sent for it
C6_MissingParameterIs400 ==
  (req.ep \in redirectProxyEndpoints /\ LacksParameter(req)) =>
    /\ ctx.body.kind # "url"
    /\ Ended => ctx.headersSent /\ ctx.statusCode = 400

\* redirect write without its message parameter was answered 400 by the handler
C6_Witness ==
  /\ req.ep = "redirectWrite"
  /\ req.returnUrl.present
  /\ ~req.message.present
  /\ "handler" \in Range(trace)
  /\ Ended
  /\ ctx.statusCode = 400
  /\ ctx.body = TextBody(<< "Bad Request" >>)

\* the key and timestamp of the message this node signed into the response
ProducedSignature(c) ==
  IF c.body.kind = "url"
    THEN [ key |-> c.body.url.message.signature.key,
           timestamp |-> c.body.url.message.timestamp ]
  ELSE IF c.body.kind = "json" /\ "payload" \in DOMAIN c.body.json
    THEN [ key |-> c.body.json.payload.signature.key,
           timestamp |-> c.body.json.payload.timestamp ]
  ELSE IF c.body.kind = "json" /\ "signature" \in DOMAIN c.body.json
    THEN [ key |-> c.body.json.signature.key, timestamp |-> c.body.json.timestamp ]
  ELSE [ key |-> None, timestamp |-> 0 ]

\* C7: the node never signs with its configured private key at a time the
\* window of currentPublicKey does not cover
C7_NoSigningOutsideKeyWindow ==
  ProducedSignature(ctx).key = node.client.privateKey =>
    Covers(node.identity, ProducedSignature(ctx).timestamp)

\* the operator request a JSON response designates: the one in the URL it
\* returns, or its payload
DesignatedRequest(c) ==
  IF c.body.kind = "url" THEN c.body.url.message
  ELSE IF c.body.kind = "json" /\ "payload" \in DOMAIN c.body.json THEN c.body.json.payload
  ELSE NoMessage

\* m is a request of this node, signed with its key over the bytes that bind
\* the caller's Origin
SignedWithOrigin(m, origin) ==
  /\ m.sender = node.client.host
  /\ m.receiver = node.client.operatorHost
  /\ m.signature =
       Sign(node.client.privateKey, RequestSigningDefinition(m, RestContext(origin)))

MustStartFetch_Always(inFlight, host) == TRUE

\* a lookup of host that misses the cache starts a fetch only when the host has
\* none in flight (single flight per host)
MustStartFetch(inFlight, host) == inFlight[host] = 0

\* what a finished refresh leaves in the cache: the host's entry replaced
\* wholesale by the key set the host publishes
Refreshed(ks, host, keys) ==
  [ h \in DOMAIN ks \cup { host } |-> IF h = host THEN keys ELSE ks[h] ]

\* the identity objects readers hold after a refresh mutated the host's object
\* in place: who held the installed object sees the new keys
HandedOut_InPlace(hd, host, keys) ==
  [ i \in DOMAIN hd |->
      IF hd[i].held /\ hd[i].host = host /\ hd[i].installed
        THEN [ hd[i] EXCEPT !.keys = keys ]
        ELSE hd[i] ]

\* the identity objects readers hold after refresh(host) replaced the host's
\* entry by a new object (copy-on-write): the object a reader holds keeps its
\* keys and is no longer the one installed in the cache
HandedOut(hd, host, keys) ==
  [ i \in DOMAIN hd |->
      IF hd[i].held /\ hd[i].host = host
        THEN [ hd[i] EXCEPT !.installed = FALSE ]
        ELSE hd[i] ]

\* a lookup at the current time finds its key in the cache
LookupHit(i, h) ==
  /\ lookups[i].st = "idle"
  /\ getPublicKey(keyStore, h, now).found
  /\ lookups' = [ lookups EXCEPT ![i] =
                    [ st |-> "served", host |-> h, ticket |-> 0,
                      key |-> getPublicKey(keyStore, h, now).key ] ]
  /\ UNCHANGED << node, parked, chain, now, reqVars, held, keyStore, remote, fetches, fetchLog, verdict >>

\* a lookup misses (unknown host, or no window covers the time) and starts the
\* fetch of the host's identity
LookupStart(i, h) ==
  /\ lookups[i].st = "idle"
  /\ ~getPublicKey(keyStore, h, now).found
  /\ MustStartFetch(fetches, h)
  /\ fetchLog[h] < MaxFetches
  /\ fetches' = [ fetches EXCEPT ![h] = @ + 1 ]
  /\ fetchLog' = [ fetchLog EXCEPT ![h] = @ + 1 ]
  /\ lookups' = [ lookups EXCEPT ![i] =
                    [ st |-> "waiting", host |-> h, ticket |-> fetchLog[h] + 1,
                      key |-> None ] ]
  /\ UNCHANGED << node, parked, chain, now, reqVars, held, keyStore, remote, verdict >>

\* a lookup misses while the host's fetch is in flight, and waits for that one
LookupJoin(i, h) ==
  /\ lookups[i].st = "idle"
  /\ ~getPublicKey(keyStore, h, now).found
  /\ ~MustStartFetch(fetches, h)
  /\ lookups' = [ lookups EXCEPT ![i] =
                    [ st |-> "waiting", host |-> h, ticket |-> fetchLog[h], key |-> None ] ]
  /\ UNCHANGED << node, parked, chain, now, reqVars, held, keyStore, remote, fetches, fetchLog, verdict >>

\* refresh(host) on staleness: starts a fetch unless one is in flight
Refresh(h) ==
  /\ MustStartFetch(fetches, h)
  /\ fetchLog[h] < MaxFetches
  /\ fetches' = [ fetches EXCEPT ![h] = @ + 1 ]
  /\ fetchLog' = [ fetchLog EXCEPT ![h] = @ + 1 ]
  /\ UNCHANGED << node, parked, chain, now, reqVars, held, keyStore, remote, lookups, verdict >>

\* the fetch of a host ends: its identity is replaced and every lookup that
\* waits for the host is served from the new identity (or fails KeyNotFound)
FetchDone(h) ==
  /\ fetches[h] > 0
  /\ keyStore' = Refreshed(keyStore, h, remote[h])
  /\ fetches' = [ fetches EXCEPT ![h] = @ - 1 ]
  /\ lookups' =
       [ i \in DOMAIN lookups |->
           IF lookups[i].st = "waiting" /\ lookups[i].host = h
             THEN LET k == getPublicKey(keyStore', h, now)
                  IN  [ lookups[i] EXCEPT
                          !.st = IF k.found THEN "served" ELSE "notfound",
                          !.key = k.key ]
             ELSE lookups[i] ]
  /\ held' = HandedOut(held, h, remote[h])
  /\ UNCHANGED << node, parked, chain, now, reqVars, remote, fetchLog, verdict >>

\* the fetch of a host fails: the cache keeps what it had and the lookups that
\* wait for the host fail with a transient error
FetchFail(h) ==
  /\ fetches[h] > 0
  /\ fetches' = [ fetches EXCEPT ![h] = @ - 1 ]
  /\ lookups' =
       [ i \in DOMAIN lookups |->
           IF lookups[i].st = "waiting" /\ lookups[i].host = h
             THEN [ lookups[i] EXCEPT !.st = "failed" ]
             ELSE lookups[i] ]
  /\ UNCHANGED << node, parked, chain, now, reqVars, held, keyStore, remote, fetchLog, verdict >>

\* the caller of a lookup takes its answer
Release(i) ==
  /\ lookups[i].st \in { "served", "notfound", "failed" }
  /\ lookups' = [ lookups EXCEPT ![i] = NoLookup ]
  /\ UNCHANGED << node, parked, chain, now, reqVars, held, keyStore, remote, fetches, fetchLog, verdict >>

\* a host rotates its keys: it publishes the next key set
Rotate(h) ==
  /\ remote[h] = KeySetA
  /\ remote' = [ remote EXCEPT ![h] = KeySetB ]
  /\ UNCHANGED << node, parked, chain, now, reqVars, held, keyStore, fetches, lookups, fetchLog, verdict >>

\* a received message is verified against the cache as it is now
VerifyMsg(m) ==
  /\ verdict' =
       [ made |-> TRUE, message |-> m,
         result |-> verify(keyStore, m, ResponseSigningDefinition(m), now),
         windows |-> IF m.sender \in DOMAIN keyStore THEN keyStore[m.sender] ELSE {},
         at |-> now ]
  /\ UNCHANGED << node, parked, chain, now, reqVars, held, keyStore, remote, fetches, lookups, fetchLog >>

InitKS ==
  /\ node = ClientNode(ClientNodeConfig)
  /\ now \in Times
  /\ req = NoReq
  /\ pos = 0
  /\ pending = None
  /\ ctx = NewCtx
  /\ trace = << >>
  /\ spans = 0
  /\ keyStore = [ h \in { "operator" } |-> KeySetA ]
  /\ remote = [ h \in KnownHosts |-> KeySetA ]
  /\ fetches = [ h \in KnownHosts |-> 0 ]
  /\ lookups = [ i \in 1..MaxLookups |-> NoLookup ]
  /\ fetchLog = [ h \in KnownHosts |-> 0 ]
  /\ verdict = NoVerdict
  /\ held = [ i \in 1..MaxReaders |-> NoIdentity ]
  /\ parked = NoSlot
  /\ chain = NoChain

\* the key store under concurrent lookups
NextKS ==
  \/ \E i \in 1..MaxLookups, h \in KnownHosts : LookupHit(i, h)
  \/ \E i \in 1..MaxLookups, h \in KnownHosts : LookupStart(i, h)
  \/ \E i \in 1..MaxLookups, h \in KnownHosts : LookupJoin(i, h)
  \/ \E i \in 1..MaxLookups : Release(i)
  \/ \E h \in KnownHosts : Refresh(h)
  \/ \E h \in KnownHosts : FetchDone(h)
  \/ \E h \in KnownHosts : FetchFail(h)
  \/ \E h \in KnownHosts : Rotate(h)

SpecKS == InitKS /\ [][NextKS]_vars

\* the messages hosts signed with one of their keys and sent unchanged
SignedMessages ==
  { OperatorResponse(s, t, k, FALSE) : s \in KnownHosts, t \in Times, k \in { "kO1", "kO2" } }

\* verification against a key store that is refreshed while hosts rotate
NextVerify ==
  \/ \E m \in SignedMessages : VerifyMsg(m)
  \/ \E h \in KnownHosts : Refresh(h)
  \/ \E h \in KnownHosts : FetchDone(h)
  \/ \E h \in KnownHosts : FetchFail(h)
  \/ \E h \in KnownHosts : Rotate(h)
  \/ Tick

InitVerify == InitKS /\ now = 0

SpecVerify == InitVerify /\ [][NextVerify]_vars

(***************************************************************************)
(* Properties of the key store                                             *)
(***************************************************************************)
\* C9: a message signed at timestamp t by host h does not verify (the verdict
\* is false or KeyNotFound) when no key window of h in the key store covers t,
\* whatever its bytes and signature; and getPublicKey(h, t) returns only a key
\* whose window covers t
C9_RotationEnforced ==
  /\ (verdict.made /\ \A w \in verdict.windows : ~Covers(w, verdict.message.timestamp)) =>
       verdict.result \in { "false", "throw" }
  /\ \A h \in KnownHosts, t \in Times :
       LET k == getPublicKey(keyStore, h, t)
       IN  k.found =>
             /\ h \in DOMAIN keyStore
             /\ \E w \in keyStore[h] : w.key = k.key /\ Covers(w, t)

\* the operator signed with its second key at a time the cached windows do not
\* cover, inside the tolerance, and the unchanged message did not verify
C9_Witness ==
  /\ verdict.made
  /\ verdict.message.sender = "operator"
  /\ verdict.message.signature =
       Sign("kO2", ResponseSigningDefinition(verdict.message))
  /\ verdict.message.timestamp = verdict.at
  /\ verdict.windows = KeySetA
  /\ \A w \in verdict.windows : ~Covers(w, verdict.message.timestamp)
  /\ verdict.result = "throw"

\* C10: per host at most one fetch is in flight, every lookup that waits for a
\* host waits for that one fetch, and a host without a fetch in flight can
\* start one whatever fetches other hosts have in flight
C10_SingleFlightPerHost ==
  \A h \in KnownHosts :
    /\ fetches[h] <= 1
    /\ \A i \in DOMAIN lookups :
         (lookups[i].st = "waiting" /\ lookups[i].host = h) =>
           fetches[h] = 1 /\ lookups[i].ticket = fetchLog[h]
    /\ (fetches[h] = 0 /\ fetchLog[h] < MaxFetches) => ENABLED Refresh(h)

\* two lookups wait for the one fetch of the same host while another host's
\* fetch is in flight too
C10_Witness ==
  \E i, j \in DOMAIN lookups, h, g \in KnownHosts :
    /\ i # j
    /\ h # g
    /\ lookups[i].st = "waiting" /\ lookups[i].host = h
    /\ lookups[j].st = "waiting" /\ lookups[j].host = h
    /\ lookups[i].ticket = lookups[j].ticket
    /\ fetches[h] = 1
    /\ fetches[g] = 1

(***************************************************************************)
(* The key store under refreshes and concurrent readers of identities      *)
(***************************************************************************)
\* a reader is handed the identity the cache holds for a host: a reference to
\* the installed object, never a copy
ReadIdentity(i, h) ==
  /\ ~held[i].held
  /\ h \in DOMAIN keyStore
  /\ held' = [ held EXCEPT ![i] =
                 [ held |-> TRUE, host |-> h, keys |-> keyStore[h],
                   handed |-> keyStore[h], installed |-> TRUE ] ]
  /\ UNCHANGED << node, parked, chain, now, reqVars, keyStore, remote, fetches, lookups, fetchLog, verdict >>

\* the reader is done with the identity it holds
DropIdentity(i) ==
  /\ held[i].held
  /\ held' = [ held EXCEPT ![i] = NoIdentity ]
  /\ UNCHANGED << node, parked, chain, now, reqVars, keyStore, remote, fetches, lookups, fetchLog, verdict >>

NextCow ==
  \/ \E i \in 1..MaxReaders, h \in KnownHosts : ReadIdentity(i, h)
  \/ \E i \in 1..MaxReaders : DropIdentity(i)
  \/ \E h \in KnownHosts : Refresh(h)
  \/ \E h \in KnownHosts : FetchDone(h)
  \/ \E h \in KnownHosts : FetchFail(h)
  \/ \E h \in KnownHosts : Rotate(h)

SpecCow == InitVerify /\ [][NextCow]_vars

\* C11: a refresh replaces a host's identity atomically: whatever the
\* interleaving of refreshes and reads, the cache holds for every host one
\* complete published key set, every reader holds one complete published key
\* set (the old or the new one, never a mixture), and the key set a reader was
\* handed is never mutated while it holds it
C11_AtomicReplace ==
  /\ \A h \in DOMAIN keyStore : keyStore[h] \in KeySets
  /\ \A i \in DOMAIN held :
       held[i].held =>
         /\ held[i].keys \in KeySets
         /\ held[i].keys = held[i].handed
         /\ held[i].installed => keyStore[held[i].host] = held[i].keys

\* a reader still holds the complete old key set of the operator after a
\* refresh installed the new one, which another reader holds
C11_Witness ==
  \E i, j \in DOMAIN held :
    /\ held[i].held /\ held[i].host = "operator"
    /\ held[i].keys = KeySetA /\ ~held[i].installed
    /\ held[j].held /\ held[j].host = "operator"
    /\ held[j].keys = KeySetB /\ held[j].installed
    /\ keyStore["operator"] = KeySetB

(***************************************************************************)
(* Two requests in flight: the route of one is suspended between two       *)
(* stages while the other one runs                                         *)
(***************************************************************************)
\* Express turns to the other request: the running one is suspended where it
\* is and the suspended one goes on
Switch ==
  /\ req # NoReq \/ parked.req # NoReq
  /\ parked' = [ req |-> req, pos |-> pos, pending |-> pending, ctx |-> ctx,
                 trace |-> trace, spans |-> spans ]
  /\ req' = parked.req
  /\ pos' = parked.pos
  /\ pending' = parked.pending
  /\ ctx' = parked.ctx
  /\ trace' = parked.trace
  /\ spans' = parked.spans
  /\ UNCHANGED << node, chain, now, ksVars >>

\* the requests the two clients send
PairRequests ==
  { r \in Requests :
      \/ r.ep \in { "read", "delete" } /\ r.origin \in { "good", "evil" }
      \/ r.ep = "write" /\ r.origin = "good"
      \/ /\ r.ep = "verifyRead" /\ r.origin = "good"
         /\ r.body.response = Some(OperatorResponse("operator", 1, "kO1", FALSE))
      \/ /\ r.ep = "redirectRead" /\ r.returnUrl = Some(UrlString("good", "/back"))
         /\ r.referer # << >> }

NextPair ==
  \/ \E r \in PairRequests : Arrive(r)
  \/ Cors
  \/ CheckOrigin
  \/ CheckReferer
  \/ CheckReturnUrl
  \/ StartSpan
  \/ RunHandler
  \/ HandleErrors
  \/ EndSpan
  \/ Finish
  \/ Tick
  \/ Switch

SpecPair == Init /\ [][NextPair]_vars

\* the response request r has once its handler ran equals the one the handler
\* gives when r is handled alone by the node as the constructor left it
AsIfAlone(r, c) ==
  \E t \in 0..now : c = Handler(r.ep, ClientNode(ClientNodeConfig), keyStore, r, t, NewCtx)

Serve(n, ks, r, t) ==
  IF r.ep \in jsonProxyEndpoints
    THEN IF ~checkOrigin(r) THEN Reject(NewCtx, OriginMismatch)
         ELSE Handler(r.ep, n, ks, r, t, NewCtx)
    ELSE IF ~checkReferer(r) THEN Reject(NewCtx, RefererMismatch)
         ELSE IF ~checkReturnUrl(r) THEN Reject(NewCtx, ReturnUrlMismatch)
         ELSE Handler(r.ep, n, ks, r, t, NewCtx)

\* the operator's key store: the vendor's declared public key
OperatorKeyStore ==
  [ h \in { hostName } |-> { pafMarketClientNodePrivateConfig.currentPublicKey } ]

\* getSigningKey(selfHost): the key whose window covers now, NoActiveKey otherwise
getSigningKey(published, selfHost, t) == getPublicKey(published, selfHost, t)

\* the chain moves to state s after a validation step with outcome ok
Moved(ch, s, ok) ==
  [ ch EXCEPT !.state = s, !.path = Append(@, s), !.checks = Append(@, ok) ]

\* the vendor's redirect read endpoint builds the signed request and the URL
\* that carries it with the return URL
ChainInitiate(ref, ret) ==
  /\ chain.state = "NONE"
  /\ LET r == [ ep |-> "redirectRead", origin |-> None, referer |-> ref,
                returnUrl |-> ret, message |-> Undefined, body |-> TextOnly(<< >>) ]
         c == Serve(node, keyStore, r, now)
         ok == Succeeded(c) /\ c.body.kind = "url"
         s == IF ok THEN "INITIATED" ELSE "FAILED"
     IN  chain' = [ Moved(chain, s, checkReferer(r) /\ checkReturnUrl(r)) EXCEPT
                      !.url = IF ok THEN c.body.url ELSE NoRedirect,
                      !.referer = ref ]
  /\ UNCHANGED << node, parked, now, reqVars, ksVars >>

\* the browser follows the redirect to the operator
ChainRedirect ==
  /\ chain.state = "INITIATED"
  /\ chain' = [ chain EXCEPT !.state = "SENT_TO_OPERATOR",
                             !.path = Append(@, "SENT_TO_OPERATOR") ]
  /\ UNCHANGED << node, parked, now, reqVars, ksVars >>

\* somebody replaces the return URL of the redirect on its way to the operator
ChainTamperRequest ==
  /\ chain.state = "SENT_TO_OPERATOR"
  /\ chain.url.returnUrl # Some(UrlString("evil", "/back"))
  /\ chain' = [ chain EXCEPT !.url.returnUrl = Some(UrlString("evil", "/back")) ]
  /\ UNCHANGED << node, parked, now, reqVars, ksVars >>

\* the operator validates the signature of the request over its redirect
\* context, performs the read and signs its response with its current key
ChainOperatorProcess ==
  /\ chain.state = "SENT_TO_OPERATOR"
  /\ LET m == chain.url.message
         ret == chain.url.returnUrl.val
         v == verify(OperatorKeyStore, m,
                     RequestSigningDefinition(m, RedirectContext(ret, chain.referer)), now)
         k == getSigningKey(remote, operatorHost, now)
         ok == v = "true" /\ k.found
     IN  chain' = [ Moved(chain, IF ok THEN "OPERATOR_PROCESSED" ELSE "FAILED", ok) EXCEPT
                      !.response = IF ok THEN OperatorResponse(operatorHost, now, k.key, FALSE)
                                         ELSE NoMessage ]
  /\ UNCHANGED << node, parked, now, reqVars, ksVars >>

\* the operator redirects back to the return URL with its signed response
ChainReturn ==
  /\ chain.state = "OPERATOR_PROCESSED"
  /\ chain' = [ chain EXCEPT !.state = "RETURNED", !.path = Append(@, "RETURNED") ]
  /\ UNCHANGED << node, parked, now, reqVars, ksVars >>

\* somebody changes the identifiers of the response on its way back
ChainTamperResponse ==
  /\ chain.state = "RETURNED"
  /\ chain.response.body # << "id2", "optIn" >>
  /\ chain' = [ chain EXCEPT !.response.body = << "id2", "optIn" >> ]
  /\ UNCHANGED << node, parked, now, reqVars, ksVars >>

\* the page posts the operator's response to the vendor's verify endpoint
ChainVerify(o) ==
  /\ chain.state = "RETURNED"
  /\ LET r == [ ep |-> "verifyRead", origin |-> o, referer |-> << >>,
                returnUrl |-> Undefined, message |-> Undefined,
                body |-> [ text |-> JsonText(<< >>), response |-> Some(chain.response),
                           error |-> NoError ] ]
         c == Serve(node, keyStore, r, now)
         ok == /\ checkOrigin(r)
               /\ verifyReadResponse(node.client, keyStore, chain.response, now) = "true"
     IN  chain' = Moved(chain, IF Succeeded(c) THEN "VERIFIED" ELSE "FAILED", ok)
  /\ UNCHANGED << node, parked, now, reqVars, ksVars >>

ChainStep ==
  \/ \E ref \in Referers, ret \in ReturnUrls : ChainInitiate(ref, ret)
  \/ ChainRedirect
  \/ ChainTamperRequest
  \/ ChainOperatorProcess
  \/ ChainReturn
  \/ ChainTamperResponse
  \/ \E o \in Origins : ChainVerify(o)

NextChain ==
  \/ \E ref \in Referers, ret \in ReturnUrls : ChainInitiate(ref, ret)
  \/ ChainRedirect
  \/ ChainTamperRequest
  \/ ChainOperatorProcess
  \/ ChainReturn
  \/ ChainTamperResponse
  \/ \E o \in Origins : ChainVerify(o)
  \/ Tick

SpecChain == Init /\ [][NextChain]_vars

ChainOrder ==
  << "INITIATED", "SENT_TO_OPERATOR", "OPERATOR_PROCESSED", "RETURNED", "VERIFIED" >>

CarriesError(r) ==
  /\ r.ep = "verifyRead"
  /\ IsJson(r.body.text)
  /\ ~r.body.response.present
  /\ r.body.error.present

\* C14: when the operator's envelope carries an error instead of a response,
\* verifyOperatorReadResponse answers 400 with the operator's error message as
\* details and the operator error's own type as type, and does not call
\* verifyReadResponse
C14_OperatorErrorRelayed ==
  (CarriesError(req) /\ "handler" \in Range(trace)) =>
    /\ ctx.headersSent
    /\ ctx.statusCode = 400
    /\ IsErrorBody(ctx.body)
    /\ ctx.body.json.details = req.body.error.message
    /\ ctx.body.json.type = req.body.error.type
    /\ ctx.verifyCalls = 0

\* C15: a successful REST write answers exactly one body with both url, the
\* fixed operator write URL, and payload, the message this node signed over the
\* request's identifiers and preferences bound to the request's Origin; the
\* signature of the payload verifies against the vendor's declared public key
\* over those bytes, and over the bytes of no other Origin
C15_WriteAnswersUrlAndPayload ==
  (req.ep = "write" /\ Succeeded(ctx)) =>
    /\ ctx.attempts = 1
    /\ ctx.body.kind = "json"
    /\ DOMAIN ctx.body.json = { "payload", "url" }
    /\ ctx.body.json.url.text = UrlString(operatorHost, "write")
    /\ ctx.body.json.url.message = NoMessage
    /\ LET payload == ctx.body.json.payload
           declared == pafMarketClientNodePrivateConfig.currentPublicKey.key
       IN  /\ payload.sender = hostName
           /\ payload.receiver = operatorHost
           /\ payload.body = JsonParse(req.body.text)
           /\ \A o \in Origins :
                VerifySignature(declared, RequestSigningDefinition(payload, RestContext(o)),
                                payload.signature)
                  <=> o = req.origin

\* identifiers id1 and preferences optIn written from Origin good were answered
\* with the signed payload and the operator's write URL
C15_Witness ==
  /\ req.ep = "write"
  /\ req.origin = "good"
  /\ Succeeded(ctx)
  /\ ctx.body.kind = "json"
  /\ ctx.body.json.payload.body = << "id1", "optIn" >>
  /\ ctx.body.json.url.text = UrlString(operatorHost, "write")
  /\ ctx.nextCalls = << "ok" >>

\* the transaction_ids and the data of a seed request
RequestedIds(r) ==
  SubSeq(JsonParse(r.body.text), 1, SepIndex(JsonParse(r.body.text), 1) - 1)
RequestedData(r) ==
  JsonParse(r.body.text)[SepIndex(JsonParse(r.body.text), 1) + 1]

\* C16: createSeed answers one signed hop whose transaction ids are the
\* request's transaction_ids in the same order and whose data is the request's
\* data; the answer holds that hop alone, no field of the node changes, and the
\* signature verifies with the node's current key over the Seed canonical bytes
\* of the hop
C16_SeedIsOneSignedHop ==
  (req.ep = "createSeed" /\ Succeeded(ctx)) =>
    /\ ctx.attempts = 1
    /\ ctx.body.kind = "json"
    /\ DOMAIN ctx.body.json = { "sender", "timestamp", "transaction_ids", "data", "signature" }
    /\ ctx.body.json.transaction_ids = RequestedIds(req)
    /\ ctx.body.json.data = RequestedData(req)
    /\ ctx.body.json.sender = hostName
    /\ VerifySignature(node.client.privateKey, SeedSigningDefinition(ctx.body.json),
                       ctx.body.json.signature)
    /\ node = ClientNode(ClientNodeConfig)

\* the seed of transactions t1, t2 with data x was answered, in that order
C16_Witness ==
  /\ req.ep = "createSeed"
  /\ Succeeded(ctx)
  /\ ctx.body.kind = "json"
  /\ ctx.body.json.transaction_ids = << "t1", "t2" >>
  /\ ctx.body.json.data = "x"
  /\ ctx.body.json.signature.key = currentPrivateKey

\* C17: whenever client.verifyReadResponse throws (unknown signer, no key window
\* covering the timestamp), verifyOperatorReadResponse answers 400 with type
\* UNKNOWN_ERROR and empty details and passes the error on; it answers neither
\* VERIFICATION_FAILED nor a success response
C17_KeyFailuresUndifferentiated ==
  (req.ep = "verifyRead" /\ ctx.verification = "throw") =>
    /\ ctx.headersSent
    /\ ctx.statusCode = 400
    /\ ctx.body = JsonBody([ type |-> UNKNOWN_ERROR, details |-> "" ])
    /\ ErrorType(ctx.body) # VERIFICATION_FAILED
    /\ ~Succeeded(ctx)
    /\ ctx.nextCalls = << "error" >>

\* a response the operator signed at a time none of its cached key windows
\* covers was answered with UNKNOWN_ERROR
C17_Witness ==
  /\ req.ep = "verifyRead"
  /\ req.body.response.present
  /\ req.body.response.val.sender = operatorHost
  /\ \A w \in keyStore[operatorHost] : ~Covers(w, req.body.response.val.timestamp)
  /\ ctx.verification = "throw"
  /\ ctx.statusCode = 400
  /\ ErrorType(ctx.body) = UNKNOWN_ERROR

(***************************************************************************)
(* The business handlers on their own: each is called with a request and a *)
(* fresh response, whatever stood before it in a route                     *)
(***************************************************************************)
CallHandler(r) ==
  /\ req = NoReq
  /\ pos = 0
  /\ req' = r
  /\ ctx' = Handler(r.ep, node, keyStore, r, now, NewCtx)
  /\ node' = NodeAfter(r.ep, node, r)
  /\ trace' = << "handler" >>
  /\ pending' = None
  /\ UNCHANGED << parked, chain, now, pos, spans, ksVars >>

NextHandlers ==
  \/ \E r \in Requests : CallHandler(r)
  \/ Finish
  \/ Tick

SpecHandlers == Init /\ [][NextHandlers]_vars

\* C18: every handler writes its response at most once: after a status or a
\* body was sent (the 400 of getMandatoryQueryStringParam for a missing
\* returnUrl or message included) it attempts no other send, sendStatus or json
C18_ResponseWrittenOnce ==
  "handler" \in Range(trace) => ctx.attempts <= 1

(***************************************************************************)
(* The request pipeline under fair scheduling: Express runs the stage a    *)
(* route has reached                                                       *)
(***************************************************************************)
Progress ==
  \/ Cors
  \/ CheckOrigin
  \/ CheckReferer
  \/ CheckReturnUrl
  \/ StartSpan
  \/ RunHandler
  \/ HandleErrors
  \/ EndSpan

SpecLive == Init /\ [][Next]_vars /\ WF_vars(Progress)

\* the handler wrote the response and then passed control on once, and the
\* route ran to its end: endSpan closed the span startSpan opened
PassedOnOnce ==
  /\ ctx.headersSent
  /\ Len(ctx.nextCalls) = 1
  /\ ctx.nextCalls[1] = (IF ctx.statusCode = 200 THEN "ok" ELSE "error")
  /\ "endSpan" \in Range(trace)
  /\ spans = 0

\* C19: every request that reaches a business handler eventually passes control
\* on exactly once after its response was written (next() after a success,
\* next(error) after a 400), so that endSpan runs and the span is closed
C19_HandlerPassesControlOn ==
  ("handler" \in Range(trace)) ~> PassedOnOnce

\* C20: verifyOperatorReadResponse is total over parsed envelopes: with a
\* response, with an error, or with neither, it ends having sent a success
\* response or a 400 {type, details} response and having called next; it never
\* leaves by an exception without a response
C20_VerifyIsTotal ==
  (req.ep = "verifyRead" /\ IsJson(req.body.text) /\ "handler" \in Range(trace)) =>
    /\ ~ctx.escaped
    /\ ctx.headersSent
    /\ Succeeded(ctx) \/ (ctx.statusCode = 400 /\ IsErrorBody(ctx.body))
    /\ Len(ctx.nextCalls) = 1

====
